---- MODULE Spec2Model ----
(***************************************************************************)
(* Model of the rbtlog recipe update engine:                               *)
(*   scripts/update-hashes.py   (hash & commit reconciler, download retry) *)
(*   scripts/update-recipes.py  (forge clients, prober, appender,          *)
(*                               orchestrator)                             *)
(*                                                                         *)
(* Strings.  A Python str is modelled as the sequence of its tokens: the   *)
(* maximal pieces of text the code never looks inside.  Every needle the   *)
(* code searches for ("/", "=", "$$TAG$$", "cd ", "git reset --soft", a    *)
(* commit id, a YYYY_MM_DD date, ...) is one token, so startswith, in,     *)
(* replace, split and rsplit are computed on token sequences exactly as    *)
(* Python computes them on characters.                                     *)
(***************************************************************************)
EXTENDS Integers, Sequences, FiniteSets, TLC

VARIABLES
    apk,    \* build patching: the Apk record being reconciled
    bh,     \* build patching: the last call made on it (arguments, result)
    url,    \* URL templates: the inputs and both resolvers' results
    sw,     \* find_apk_url: its locals, the probes made, its result
    dl,     \* download_file_with_retries: its locals and what it did
    rcp,    \* append_latest_version: the recipe it mutates
    ah,     \* append_latest_version: the last call made on it
    disk,   \* orchestrator: recipe file -> recipe, as stored
    orc,    \* orchestrator: the locals of the running entry point
    log     \* orchestrator: save_recipe calls, lookups, per-recipe outcomes

buildVars == <<apk, bh>>
appendVars == <<rcp, ah>>
orcVars == <<disk, orc, log>>
vars == <<apk, bh, url, sw, dl, rcp, ah, disk, orc, log>>

\* the value of a variable the specification at hand does not use
Idle == [pc |-> "idle"]

(***************************************************************************)
(* Bounds                                                                  *)
(***************************************************************************)
\* longest build sequence drawn for an Apk
MaxLen == 3
\* longest URL template drawn for the resolvers, in tokens
MaxUrlLen == 3
\* largest `retries` argument drawn for download_file_with_retries
MaxRetries == 5
\* latest day, as an index of Calendar, that datetime.now() is drawn from
MaxToday == 4
\* most calls of append_latest_version made on one recipe
MaxCalls == 3
\* most assets (release links) in a forge's answer
MaxAssets == 2
\* most recipe files handed to update_recipes
MaxBatch == 2

(***************************************************************************)
(* str operations                                                          *)
(***************************************************************************)
\* Python None, where a str is optional
None == "None"

\* s.startswith(p)
StartsWith(s, p) == Len(s) >= Len(p) /\ SubSeq(s, 1, Len(p)) = p

\* p in s
Contains(s, p) ==
    \E i \in 1..(Len(s) - Len(p) + 1) : SubSeq(s, i, i + Len(p) - 1) = p

\* index of the first occurrence of p in s at or after position i, 0 if none
RECURSIVE FindFrom(_, _, _)
FindFrom(s, p, i) ==
    IF i + Len(p) - 1 > Len(s) THEN 0
    ELSE IF SubSeq(s, i, i + Len(p) - 1) = p THEN i
    ELSE FindFrom(s, p, i + 1)

\* s.replace(old, new): every non-overlapping occurrence, left to right
RECURSIVE Replace(_, _, _)
Replace(s, old, new) ==
    LET k == FindFrom(s, old, 1) IN
    IF k = 0 THEN s
    ELSE SubSeq(s, 1, k - 1) \o new
         \o Replace(SubSeq(s, k + Len(old), Len(s)), old, new)

\* index of the last occurrence of token t in s, 0 if none
RECURSIVE LastIndex(_, _, _)
LastIndex(s, t, i) ==
    IF i = 0 THEN 0 ELSE IF s[i] = t THEN i ELSE LastIndex(s, t, i - 1)

\* s.rsplit(sep, 1)[-1]
RSplitLast(s, sep) == SubSeq(s, LastIndex(s, sep, Len(s)) + 1, Len(s))

\* s.split(sep, 1)[0]
SplitFirst(s, sep) ==
    LET k == FindFrom(s, <<sep>>, 1) IN
    IF k = 0 THEN s ELSE SubSeq(s, 1, k - 1)

\* list.pop(i) and list.insert(0, x), 1-based
Pop(l, i) == SubSeq(l, 1, i - 1) \o SubSeq(l, i + 1, Len(l))
Insert0(l, x) == <<x>> \o l

\* sequences over S of length at most n
SeqsUpTo(S, n) == UNION {[1..k -> S] : k \in 0..n}

(***************************************************************************)
(* update-hashes.py: constants                                             *)
(***************************************************************************)
\* members whose name fully matches classes\d*\.dex
DexNames == {<<"classes.dex">>, <<"classes2.dex">>}
PROF_PATH == <<"assets", "/", "dexopt", "/", "baseline.prof">>
PROFM_PATH == <<"assets", "/", "dexopt", "/", "baseline.profm">>
\* FILES: prefix -> member shape
FILES == [DEX |-> [re |-> TRUE, names |-> DexNames, path |-> <<>>],
          PROF |-> [re |-> FALSE, names |-> {}, path |-> PROF_PATH],
          PROFM |-> [re |-> FALSE, names |-> {}, path |-> PROFM_PATH]]
Prefixes == <<"DEX", "PROF", "PROFM">>
VCSINFO_FILE == "META-INF/version-control-info.textproto"
\* the values VCSINFO_REGEX's group can take: 40 hex digit revisions
Commits == {"c1", "c2"}

RESET == "git reset --soft"
CHECKOUT == "git checkout"

(***************************************************************************)
(* update-hashes.py: find_file_hashes, update_file_hash                    *)
(***************************************************************************)
\* the entries one prefix contributes for the pair (build[i], build[i+1])
FilePairEntry(build, i, prefix) ==
    LET l1 == build[i]
        l2 == build[i + 1]
        p1 == <<prefix \o "_FILE", "=">>
        p2 == <<prefix \o "_SHA1", "=">>
        shape == FILES[prefix]
        filename == RSplitLast(l1, "/")
    IN  IF ~(StartsWith(l1, p1) /\ StartsWith(l2, p2)) THEN <<>>
        ELSE IF shape.re /\ filename \in shape.names
             THEN << <<i + 1, filename>> >>
        ELSE IF ~shape.re /\ RSplitLast(shape.path, "/") = filename
             THEN << <<i + 1, shape.path>> >>
        ELSE <<>>

RECURSIVE FindFrom_file_hashes(_, _)
FindFrom_file_hashes(build, i) ==
    IF i > Len(build) - 1 THEN <<>>
    ELSE FilePairEntry(build, i, Prefixes[1]) \o FilePairEntry(build, i, Prefixes[2])
         \o FilePairEntry(build, i, Prefixes[3]) \o FindFrom_file_hashes(build, i + 1)

\* list of (line_index, apk_file_path), line_index 1-based
find_file_hashes(a) == FindFrom_file_hashes(a.build, 1)

update_file_hash(a, i, path, hashes) ==
    LET prefix == SplitFirst(a.build[i], "=")
    IN  [a EXCEPT !.build[i] = prefix \o <<"=", hashes[path]>>]

\* lines 145-146 of update_recipe_hashes: the loop over lines_files
RECURSIVE ApplyFileHashes(_, _, _, _)
ApplyFileHashes(a, lines_files, k, hashes) ==
    IF k > Len(lines_files) THEN a
    ELSE ApplyFileHashes(update_file_hash(a, lines_files[k][1], lines_files[k][2], hashes),
                         lines_files, k + 1, hashes)

(***************************************************************************)
(* update-hashes.py: update_commit_hash                                    *)
(***************************************************************************)
ResetLine(c) == <<RESET, " ", c>>

\* re.sub(r"sed s/[0-9a-f]{40}/[0-9a-f]{40}/", f"sed s/{tag}/{apk}/", line)
RECURSIVE SedSub(_, _, _)
SedSub(line, tag_commit, apk_commit) ==
    IF Len(line) < 5 THEN line
    ELSE IF line[1] = "sed s/" /\ line[2] \in Commits /\ line[3] = "/"
            /\ line[4] \in Commits /\ line[5] = "/"
         THEN <<"sed s/", tag_commit, "/", apk_commit, "/">>
              \o SedSub(SubSeq(line, 6, Len(line)), tag_commit, apk_commit)
    ELSE <<line[1]>> \o SedSub(SubSeq(line, 2, Len(line)), tag_commit, apk_commit)

RECURSIVE ScanCommit(_, _, _, _, _)
ScanCommit(a, i, cd, apk_commit, tag_commit) ==
    LET differ == apk_commit # None /\ tag_commit # apk_commit IN
    IF i > Len(a.build)
    THEN IF differ
         THEN [apk |-> [a EXCEPT !.build = Insert0(a.build, ResetLine(apk_commit))],
               ret |-> TRUE]
         ELSE [apk |-> a, ret |-> FALSE]
    ELSE LET line == a.build[i] IN
         IF ~cd /\ (StartsWith(line, <<RESET>>) \/ StartsWith(line, <<CHECKOUT>>))
         THEN [apk |-> IF differ
                       THEN [a EXCEPT !.build[i] = ResetLine(apk_commit)]
                       ELSE [a EXCEPT !.build = Pop(a.build, i)],
               ret |-> TRUE]
         ELSE IF Contains(line, <<VCSINFO_FILE>>) /\ Contains(line, <<"fix-files">>)
         THEN [apk |-> IF differ
                       THEN [a EXCEPT !.build[i] = SedSub(line, tag_commit, apk_commit)]
                       ELSE [a EXCEPT !.build = Pop(a.build, i)],
               ret |-> TRUE]
         ELSE ScanCommit(a, i + 1,
                         cd \/ StartsWith(line, <<"cd ">>) \/ StartsWith(line, <<"pushd ">>),
                         apk_commit, tag_commit)

\* mutant: with differing commits a reset instruction is inserted without
\* looking for an existing one
update_commit_hash_AlwaysInsert(a, apk_commit, tag_commit) ==
    IF apk_commit # None /\ tag_commit # apk_commit
    THEN [apk |-> [a EXCEPT !.build = Insert0(a.build, ResetLine(apk_commit))],
          ret |-> TRUE]
    ELSE ScanCommit(a, 1, FALSE, apk_commit, tag_commit)

\* returns the Apk as mutated in place and the function's return value
update_commit_hash(a, apk_commit, tag_commit) ==
    ScanCommit(a, 1, FALSE, apk_commit, tag_commit)

(***************************************************************************)
(* update-hashes.py: retrieve_apk_hashes and the per-Apk body of           *)
(* update_recipe_hashes                                                    *)
(***************************************************************************)
\* the members that can be asked for
Members == DexNames \cup {PROF_PATH, PROFM_PATH}

\* SHA-1 hex digest of a member's bytes: one digest per (content, member)
Sha1(content, member) == content \o ":" \o member[Len(member)]

\* an upstream APK: the content its members are built from, and the revision
\* in its META-INF/version-control-info.textproto (None: no such member, or
\* no revision in it)
Artifacts == [content : {"x", "y"}, commit : Commits \cup {None}]

\* hashes, commit of a downloaded artifact
retrieve_apk_hashes(art, files) ==
    [hashes |-> [m \in {files[k] : k \in 1..Len(files)} |-> Sha1(art.content, m)],
     commit |-> art.commit]

Paths(lines_files) == [k \in 1..Len(lines_files) |-> lines_files[k][2]]

\* lines 142-150 for one Apk, given the artifact downloaded and the tag's commit
ReconcileApk(a, art, tag_commit) ==
    LET lines_files == find_file_hashes(a)
        got == retrieve_apk_hashes(art, Paths(lines_files))
        hashed == ApplyFileHashes(a, lines_files, 1, got.hashes)
        res == update_commit_hash(hashed, got.commit, tag_commit)
    IN  [apk |-> res.apk,
         modified |-> Len(lines_files) > 0 \/ res.ret,
         lines_files |-> lines_files,
         hashed |-> hashed,
         apk_commit |-> got.commit]

(***************************************************************************)
(* url_with_replacements, in update-hashes.py and in update-recipes.py     *)
(***************************************************************************)
\* Tags, as token sequences ('.' is a token: tag.replace(".", "_") sees it)
TagV1 == <<"v1">>
TagV2 == <<"v2">>
TagV1_2 == <<"v1", ".", "2">>
\* a tag that reads as a date: 2024.01.31
TagDate == <<"2024", ".", "01", ".", "31">>

NoMatch == <<"no match">>

\* Tag patterns are regular expressions; each is modelled by what
\* re.fullmatch(pattern, tag) returns on the tags above: m.groups(""), the
\* capture groups with "" for a group that took no part, or NoMatch.
\*   PatV       v(\d+)(\.\d+)?       PatVV   v(\d+)\.(\d+)
\*   PatDate    \d{4}\.\d{2}\.\d{2}   (no groups)
FullMatchGroups(tag_pattern, tag) ==
    CASE tag_pattern = "PatV" /\ tag = TagV1 -> << <<"1">>, <<>> >>
      [] tag_pattern = "PatV" /\ tag = TagV2 -> << <<"2">>, <<>> >>
      [] tag_pattern = "PatV" /\ tag = TagV1_2 -> << <<"1">>, <<".", "2">> >>
      [] tag_pattern = "PatVV" /\ tag = TagV1_2 -> << <<"1">>, <<"2">> >>
      [] tag_pattern = "PatDate" /\ tag = TagDate -> << >>
      [] OTHER -> NoMatch

TagPatterns == {"PatV", "PatVV", "PatDate"}

GroupToken(i) == CASE i = 1 -> "$$TAG:1$$" [] i = 2 -> "$$TAG:2$$"

\* lines 103-104 / 195-196: for i, group in enumerate(m.groups(""))
RECURSIVE ReplaceGroups(_, _, _)
ReplaceGroups(u, groups, i) ==
    IF i > Len(groups) THEN u
    ELSE ReplaceGroups(Replace(u, <<GroupToken(i)>>, groups[i]), groups, i + 1)

\* update-hashes.py
url_with_replacements_hashes(apk_url, tag, tag_pattern) ==
    LET u == Replace(apk_url, <<"$$TAG$$">>, tag)
        m == IF tag_pattern = None THEN NoMatch ELSE FullMatchGroups(tag_pattern, tag)
    IN  IF m # NoMatch THEN ReplaceGroups(u, m, 1) ELSE u

\* update-recipes.py
url_with_replacements(apk_url, tag, tag_pattern) ==
    LET u1 == Replace(apk_url, <<"$$TAG$$">>, tag)
        u2 == Replace(u1, <<"$$TAG:_$$">>, Replace(tag, <<".">>, <<"_">>))
        m == IF tag_pattern = None THEN NoMatch ELSE FullMatchGroups(tag_pattern, tag)
    IN  IF m # NoMatch THEN ReplaceGroups(u2, m, 1) ELSE u2

(***************************************************************************)
(* Specification SpecUrl: both resolvers applied to bounded templates      *)
(***************************************************************************)
UrlTokens == {"https://h/", ".apk", "$$TAG$$", "$$TAG:_$$", "$$TAG:1$$", "$$TAG:2$$"}
UrlTags == {TagV1, TagV1_2}

UrlInit ==
    url \in [apk_url : SeqsUpTo(UrlTokens, MaxUrlLen), tag : UrlTags,
             tag_pattern : {None, "PatV", "PatVV"}, done : {FALSE},
             hashes : {<<>>}, recipes : {<<>>}]

\* the Reconciler resolves the template; so does the Resolver of update-recipes
ResolveUrl ==
    /\ ~url.done
    /\ url' = [url EXCEPT
                 !.done = TRUE,
                 !.hashes = url_with_replacements_hashes(url.apk_url, url.tag, url.tag_pattern),
                 !.recipes = url_with_replacements(url.apk_url, url.tag, url.tag_pattern)]

NextUrl == ResolveUrl /\ UNCHANGED <<apk, bh, sw, dl, rcp, ah, disk, orc, log>>

InitUrl ==
    /\ UrlInit
    /\ apk = Idle /\ bh = Idle /\ sw = Idle /\ dl = Idle /\ rcp = Idle /\ ah = Idle
    /\ disk = Idle /\ orc = Idle /\ log = Idle

SpecUrl == InitUrl /\ [][NextUrl]_vars

\* what the URL Template Resolver contract gives, token by token
ContractToken(t, tag, tag_pattern) ==
    LET m == IF tag_pattern = None THEN NoMatch ELSE FullMatchGroups(tag_pattern, tag) IN
    CASE t = "$$TAG$$" -> tag
      [] t = "$$TAG:_$$" -> [i \in 1..Len(tag) |-> IF tag[i] = "." THEN "_" ELSE tag[i]]
      [] t = "$$TAG:1$$" /\ m # NoMatch /\ Len(m) >= 1 -> m[1]
      [] t = "$$TAG:2$$" /\ m # NoMatch /\ Len(m) >= 2 -> m[2]
      [] OTHER -> <<t>>

RECURSIVE Contract(_, _, _)
Contract(u, tag, tag_pattern) ==
    IF u = <<>> THEN <<>>
    ELSE ContractToken(u[1], tag, tag_pattern) \o Contract(Tail(u), tag, tag_pattern)

\* C8 as stated: the URL the Reconciler downloads is the template resolved by
\* the URL Template Resolver contract; update-hashes.py's resolver returns the
\* same string as update-recipes.py's for every template, tag and pattern.
C8_Original ==
    url.done =>
        /\ url.hashes = url.recipes
        /\ url.hashes = Contract(url.apk_url, url.tag, url.tag_pattern)

\* update-recipes.py's resolver does meet the contract
C8_RecipesResolver ==
    url.done => url.recipes = Contract(url.apk_url, url.tag, url.tag_pattern)

\* and the two agree on templates without $$TAG:_$$
C8_WithoutUnderscoreToken ==
    url.done /\ ~Contains(url.apk_url, <<"$$TAG:_$$">>) => url.hashes = url.recipes

(***************************************************************************)
(* update-hashes.py: download_file_with_retries; the single requests of    *)
(* check_url and of the forge API lookups (update-recipes.py)              *)
(***************************************************************************)
DefaultRetries == 5

\* mutant: the sleep is not skipped for the first attempt
SleepsBefore_Always(i) == TRUE

\* line 66: sleep before every attempt but the first
SleepsBefore(i) == i # 0

\* line 65: the loop runs for i in range(retries)
LoopRuns(i, retries) == i < retries

\* transport errors (requests.RequestException) an attempt can end with
TransportErrors == {"ConnectionError", "HTTPError"}

DlInit ==
    dl \in [fn : {"download_file_with_retries"}, retries : 0..MaxRetries,
            i : {0}, pc : {"for"}, events : {<<>>}, error : {"No retries"},
            result : {"running"}]
       \cup [fn : {"check_url", "latest_release_api"}, retries : {1},
             i : {0}, pc : {"get"}, events : {<<>>}, error : {None},
             result : {"running"}]

\* top of the loop body: the sleep, if any
DlLoop ==
    /\ dl.fn = "download_file_with_retries" /\ dl.pc = "for"
    /\ LoopRuns(dl.i, dl.retries)
    /\ dl' = [dl EXCEPT !.pc = "try",
                        !.events = IF SleepsBefore(dl.i) THEN @ \o <<"sleep">> ELSE @]
    /\ UNCHANGED <<apk, bh, url, sw, rcp, ah, disk, orc, log>>

\* download_file succeeds: return
DlAttemptOk ==
    /\ dl.fn = "download_file_with_retries" /\ dl.pc = "try"
    /\ dl' = [dl EXCEPT !.pc = "done", !.events = @ \o <<"ok">>, !.result = "returned"]
    /\ UNCHANGED <<apk, bh, url, sw, rcp, ah, disk, orc, log>>

\* download_file raises a transport error: remember it, next i
DlAttemptFail ==
    /\ dl.fn = "download_file_with_retries" /\ dl.pc = "try"
    /\ \E e \in TransportErrors :
         dl' = [dl EXCEPT !.pc = "for", !.i = @ + 1, !.events = @ \o <<e>>, !.error = e]
    /\ UNCHANGED <<apk, bh, url, sw, rcp, ah, disk, orc, log>>

\* download_file raises anything else (the output file cannot be written):
\* not caught, it leaves the function at once
DlAttemptOther ==
    /\ dl.fn = "download_file_with_retries" /\ dl.pc = "try"
    /\ dl' = [dl EXCEPT !.pc = "done", !.events = @ \o <<"OSError">>,
                        !.error = "OSError", !.result = "raised"]
    /\ UNCHANGED <<apk, bh, url, sw, rcp, ah, disk, orc, log>>

\* the loop is exhausted: raise error
DlRaise ==
    /\ dl.fn = "download_file_with_retries" /\ dl.pc = "for"
    /\ ~LoopRuns(dl.i, dl.retries)
    /\ dl' = [dl EXCEPT !.pc = "done", !.result = "raised"]
    /\ UNCHANGED <<apk, bh, url, sw, rcp, ah, disk, orc, log>>

\* check_url: one requests.get; a transport error is caught and gives False
CheckUrlCall ==
    /\ dl.fn = "check_url" /\ dl.pc = "get"
    /\ \E o \in {"200", "404", "500"} \cup TransportErrors :
         dl' = [dl EXCEPT !.pc = "done", !.events = @ \o <<o>>,
                         !.result = IF o \in TransportErrors \/ o = "404"
                                    THEN "False" ELSE "True"]
    /\ UNCHANGED <<apk, bh, url, sw, rcp, ah, disk, orc, log>>

\* gitea/github/gitlab_latest_release: one requests.get, raise_for_status
ApiLookupCall ==
    /\ dl.fn = "latest_release_api" /\ dl.pc = "get"
    /\ \E o \in {"200", "404", "500"} \cup TransportErrors :
         dl' = [dl EXCEPT !.pc = "done", !.events = @ \o <<o>>,
                         !.error = IF o = "200" THEN None
                                   ELSE IF o \in TransportErrors THEN o ELSE "HTTPError",
                         !.result = IF o = "200" THEN "returned" ELSE "raised"]
    /\ UNCHANGED <<apk, bh, url, sw, rcp, ah, disk, orc, log>>

NextRetry ==
    \/ DlLoop \/ DlAttemptOk \/ DlAttemptFail \/ DlAttemptOther \/ DlRaise
    \/ CheckUrlCall \/ ApiLookupCall

InitRetry ==
    /\ DlInit
    /\ apk = Idle /\ bh = Idle /\ url = Idle /\ sw = Idle /\ rcp = Idle /\ ah = Idle
    /\ disk = Idle /\ orc = Idle /\ log = Idle

SpecRetry == InitRetry /\ [][NextRetry]_vars

\* network requests made so far, and the events that are requests
IsRequest(e) == e # "sleep"
Requests(ev) == {k \in 1..Len(ev) : IsRequest(ev[k])}

\* C10: download_file_with_retries makes at most `retries` attempts, none
\* after a successful one, sleeps only between two consecutive attempts, and
\* when every attempt failed with a transport error ends by raising the last
\* attempt's error; check_url and the forge API lookups make one request.
C10_BoundedRetry ==
    LET ev == dl.events IN
    /\ dl.fn = "download_file_with_retries" =>
          /\ Cardinality(Requests(ev)) <= dl.retries
          /\ \A k \in 1..Len(ev) : ev[k] = "ok" => k = Len(ev) /\ dl.result = "returned"
          /\ \A k \in 1..Len(ev) :
                ev[k] = "sleep" => /\ k > 1 /\ ev[k - 1] \in TransportErrors
                                   /\ (k < Len(ev) => IsRequest(ev[k + 1]))
          /\ \A k \in 2..Len(ev) :
                IsRequest(ev[k]) => ev[k - 1] = "sleep"
          /\ dl.pc = "for" /\ dl.i >= dl.retries => ENABLED DlRaise
          /\ dl.result = "raised" /\ dl.retries > 0 /\ dl.error \in TransportErrors =>
                /\ Cardinality(Requests(ev)) = dl.retries
                /\ dl.error = ev[Len(ev)]
          /\ dl.result = "returned" => ev # <<>> /\ ev[Len(ev)] = "ok"
    /\ dl.fn \in {"check_url", "latest_release_api"} =>
          /\ Len(ev) <= 1
          /\ dl.pc = "done" => Len(ev) = 1 /\ IsRequest(ev[1])

\* C10 witness: with the default count, five failed attempts, four sleeps
\* between them, and the last error raised
C10_Witness ==
    /\ dl.fn = "download_file_with_retries" /\ dl.retries = DefaultRetries
    /\ dl.result = "raised"
    /\ Cardinality(Requests(dl.events)) = DefaultRetries
    /\ Cardinality({k \in 1..Len(dl.events) : dl.events[k] = "sleep"}) = DefaultRetries - 1
    /\ dl.error = dl.events[Len(dl.events)]

(***************************************************************************)
(* update-recipes.py: find_apk_url                                         *)
(***************************************************************************)
\* consecutive calendar days; a day is known by its index
Calendar ==
    << <<"2024", "01", "30">>, <<"2024", "01", "31">>, <<"2024", "02", "01">>,
       <<"2024", "02", "02">>, <<"2024", "02", "03">>, <<"2024", "02", "04">>,
       <<"2024", "02", "05">> >>

\* current_test.strftime('%Y_%m_%d')
Strftime(n) == <<Calendar[n][1], "_", Calendar[n][2], "_", Calendar[n][3]>>

\* datetime.strptime(s, '%Y_%m_%d'), for the text of a calendar day
Strptime(d) == CHOOSE n \in 1..Len(Calendar) : Strftime(n) = d

\* text that \d{4}_\d{2}_\d{2} matches at position i of u
IsDateAt(u, i) ==
    /\ i + 4 <= Len(u)
    /\ \E n \in 1..Len(Calendar) : SubSeq(u, i, i + 4) = Strftime(n)

\* re.search(date_pattern, u).group(), None when there is no match
RECURSIVE SearchDateFrom(_, _)
SearchDateFrom(u, i) ==
    IF i + 4 > Len(u) THEN None
    ELSE IF IsDateAt(u, i) THEN SubSeq(u, i, i + 4)
    ELSE SearchDateFrom(u, i + 1)

SearchDate(u) == SearchDateFrom(u, 1)

\* line 156: the tag pattern find_apk_url takes from recipe["updates"]
SweepTagPattern(updates) ==
    IF Contains(updates, <<"tags:">>)
    THEN LET k == FindFrom(updates, <<"tags:">>, 1)
             rest == SubSeq(updates, k + 1, Len(updates))
         IN  IF rest = <<>> THEN None ELSE rest[1]
    ELSE None

\* check_url: True unless the status is 404 or the request raised
check_url(outcome) == ~(outcome = "404" \/ outcome \in TransportErrors)

ProbeOutcomes == {"200", "404", "ConnectionError"}

\* line 172: while current_test <= current_date, current_date being now plus
\* one day (a time of day on the day after today), current_test a midnight
SweepContinues(current_test, today) == current_test <= today + 1

\* line 176: last_url.replace(match.group(), ...), match searched in last_url;
\* match is None when the template itself holds no date: AttributeError
SweepResult(last_url, current_test) ==
    LET match == SearchDate(last_url) IN
    IF match = None THEN [raised |-> TRUE, value |-> "AttributeError"]
    ELSE [raised |-> FALSE, value |-> Replace(last_url, match, Strftime(current_test))]

(***************************************************************************)
(* Specification SpecSweep: find_apk_url, one probe per step               *)
(***************************************************************************)
SweepTemplates ==
    { <<"https://h/", "app-", "$$TAG$$", "-">> \o Strftime(1) \o <<".apk">>,
      <<"https://h/">> \o Strftime(3) \o <<"/", "$$TAG:1$$", ".apk">>,
      <<"https://h/", "$$TAG$$", ".apk">>,
      <<"https://h/", "$$TAG:_$$", ".apk">>,
      <<"https://h/", "$$TAG:_$$", "/">> \o Strftime(1) \o <<".apk">> }

SweepInit ==
    sw \in [last_url : SweepTemplates, tag : {TagV2, TagDate},
            updates : {<<"tags:", "PatV">>, <<"tags:", "PatDate">>},
            today : 1..MaxToday,
            pc : {"start"}, lur : {<<>>}, date_group_test : {None},
            current_test : {0}, probes : {<<>>}, result : {None}]

\* lines 152-170: the first probe, the search for a date, the sweep's start
SweepStart ==
    /\ sw.pc = "start"
    /\ \E o \in ProbeOutcomes :
        LET lur == url_with_replacements(sw.last_url, sw.tag, SweepTagPattern(sw.updates))
            d == SearchDate(lur)
            base == [sw EXCEPT !.lur = lur,
                               !.probes = <<[url |-> lur, day |-> 0, ok |-> check_url(o)]>>]
        IN  sw' = IF check_url(o)
                  THEN [base EXCEPT !.pc = "returned", !.result = sw.last_url]
                  ELSE IF d = None
                  THEN [base EXCEPT !.pc = "returned", !.result = None]
                  ELSE [base EXCEPT !.pc = "while", !.date_group_test = d,
                                    !.current_test = Strptime(d)]
    /\ UNCHANGED <<apk, bh, url, dl, rcp, ah, disk, orc, log>>

\* lines 172-177: one turn of the loop
SweepProbe ==
    /\ sw.pc = "while"
    /\ SweepContinues(sw.current_test, sw.today)
    /\ \E o \in ProbeOutcomes :
        LET date_url_test == Replace(sw.lur, sw.date_group_test, Strftime(sw.current_test))
            probed == [sw EXCEPT !.probes = @ \o <<[url |-> date_url_test,
                                                     day |-> sw.current_test,
                                                     ok |-> check_url(o)]>>]
            r == SweepResult(sw.last_url, sw.current_test)
        IN  sw' = IF check_url(o)
                  THEN [probed EXCEPT !.pc = IF r.raised THEN "raised" ELSE "returned",
                                      !.result = r.value]
                  ELSE [probed EXCEPT !.current_test = @ + 1]
    /\ UNCHANGED <<apk, bh, url, dl, rcp, ah, disk, orc, log>>

\* line 179: the loop's condition fails
SweepExhausted ==
    /\ sw.pc = "while"
    /\ ~SweepContinues(sw.current_test, sw.today)
    /\ sw' = [sw EXCEPT !.pc = "returned", !.result = None]
    /\ UNCHANGED <<apk, bh, url, dl, rcp, ah, disk, orc, log>>

NextSweep == SweepStart \/ SweepProbe \/ SweepExhausted

InitSweep ==
    /\ SweepInit
    /\ apk = Idle /\ bh = Idle /\ url = Idle /\ dl = Idle /\ rcp = Idle /\ ah = Idle
    /\ disk = Idle /\ orc = Idle /\ log = Idle

SpecSweep == InitSweep /\ [][NextSweep]_vars

\* the sweep's probes: all but the first probe of the call
SweepProbes == Tail(sw.probes)
SweepFinished == sw.pc \in {"returned", "raised"}
\* the claim's case: the tag-substituted URL did not exist and holds a date
InSweep == sw.pc # "start" /\ ~sw.probes[1].ok /\ SearchDate(sw.lur) # None

\* C9 as stated: candidate dates are probed in increasing order, one day at a
\* time from the date in the tag-substituted URL, none later than tomorrow;
\* the result is the previous URL template with its date segment replaced by
\* the first candidate date whose URL exists; the sweep ends returning absent
\* when no candidate up to and including tomorrow exists.
C9_Original ==
    InSweep =>
        LET P == SweepProbes
            start == Strptime(SearchDate(sw.lur))
            oks == {k \in 1..Len(P) : P[k].ok}
        IN  /\ \A k \in 1..Len(P) : P[k].day = start + k - 1 /\ P[k].day <= sw.today + 1
            /\ \A k \in 1..Len(P) : P[k].ok => k = Len(P)
            /\ SweepFinished /\ oks # {} =>
                  /\ sw.pc = "returned"
                  /\ SearchDate(sw.last_url) # None
                  /\ sw.result = Replace(sw.last_url, SearchDate(sw.last_url),
                                         Strftime(P[Len(P)].day))
            /\ SweepFinished /\ oks = {} =>
                  /\ sw.pc = "returned" /\ sw.result = None
                  /\ Len(P) = IF start > sw.today + 1 THEN 0 ELSE sw.today + 2 - start
            /\ sw.pc = "while" => ENABLED (SweepProbe \/ SweepExhausted)

\* the same where the template itself holds a date
C9_TemplateWithDate ==
    SearchDate(sw.last_url) # None => C9_Original

(***************************************************************************)
(* Recipes                                                                 *)
(***************************************************************************)
\* dict from asset pattern to URL; Python's None is kept apart from {}
NoneUrls == [isNone |-> TRUE, map |-> <<>>]
Dict(m) == [isNone |-> FALSE, map |-> m]
\* truthiness of an Optional[Dict]: None and {} are both false
Truthy(d) == ~d.isNone /\ DOMAIN d.map # {}

Tags(recipe) == {recipe.versions[k].tag : k \in 1..Len(recipe.versions)}
Last(q) == q[Len(q)]

(***************************************************************************)
(* update-recipes.py: append_latest_version                                *)
(***************************************************************************)
\* lines 268-272 for one Apk of the copied version
RemapApk(a, tag, apk_urls) ==
    LET apk_url == apk_urls.map[a.apk_pattern] IN
    IF apk_url # Replace(a.apk_url, <<"$$TAG$$">>, tag)
    THEN [a EXCEPT !.apk_url = apk_url] ELSE a

\* mutant: the test for a tag already present (lines 263-264) is left out
append_latest_version_NoTagTest(recipe, tag, apk_urls) ==
    [recipe |-> [recipe EXCEPT !.versions =
                    Append(@, [Last(recipe.versions) EXCEPT !.tag = tag])],
     ret |-> TRUE]

\* returns the recipe as mutated in place and the function's return value
append_latest_version(recipe, tag, apk_urls) ==
    IF tag \in Tags(recipe) THEN [recipe |-> recipe, ret |-> FALSE]
    ELSE LET copy == [Last(recipe.versions) EXCEPT !.tag = tag]
             latest_version ==
                 IF Truthy(apk_urls)
                 THEN [copy EXCEPT !.apks = [k \in 1..Len(copy.apks) |->
                                               RemapApk(copy.apks[k], tag, apk_urls)]]
                 ELSE copy
         IN  [recipe |-> [recipe EXCEPT !.versions = Append(@, latest_version)],
              ret |-> TRUE]

(***************************************************************************)
(* update-recipes.py: latest_release and the three forge clients           *)
(***************************************************************************)
CODEBERG_DOT_ORG == "codeberg.org"
GITHUB_DOT_COM == "github.com"
GITLAB_DOT_COM == "gitlab.com"

\* Asset patterns are regular expressions; each is modelled by the names
\* re.fullmatch accepts:  PatApp  app.*\.apk    PatLib  lib\.apk
FullMatchName(apk_pattern, name) ==
    CASE apk_pattern = "PatApp" -> name \in {<<"app.apk">>, <<"app-arm.apk">>}
      [] apk_pattern = "PatLib" -> name = <<"lib.apk">>
      [] OTHER -> FALSE

\* lines 52-54: strip a trailing ".git", urlparse(repository).hostname
Hostname(repository) == repository[2]

\* the first of the indices S (the inner for loop stops at its first hit), 0
\* if there is none
FirstHit(S) == IF S = {} THEN 0 ELSE CHOOSE i \in S : \A j \in S : i <= j

\* latest_release_gitea / latest_release_github: for each pattern the
\* download URL of the first asset whose name fully matches
NameMatchUrls(data, apk_patterns) ==
    LET idx(p) == FirstHit({i \in 1..Len(data.assets) :
                               FullMatchName(p, data.assets[i].name)})
        found == {apk_patterns[k] : k \in {j \in 1..Len(apk_patterns) :
                                            idx(apk_patterns[j]) # 0}}
    IN  [p \in found |-> data.assets[idx(p)].url]

latest_release_gitea(data, apk_patterns) ==
    [raised |-> FALSE, tag |-> data.tag_name, apk_urls |-> NameMatchUrls(data, apk_patterns)]

latest_release_github(data, apk_patterns) ==
    [raised |-> FALSE, tag |-> data.tag_name, apk_urls |-> NameMatchUrls(data, apk_patterns)]

\* GITLAB_UPLOAD.format(hostname, project_id, upload)
GitlabUploadUrl(host, project_id, upload) ==
    <<"https://", host, "/-/project/", project_id, "/uploads/">> \o upload

\* latest_release_gitlab: a link matches by its name or by the last path
\* component of its URL; failing that, the first upload link of the
\* description whose file name matches, which needs the numeric project id
\* of the response's URL (Error when that URL holds none)
latest_release_gitlab(host, data, apk_patterns) ==
    LET link(p) == FirstHit({i \in 1..Len(data.assets) :
                                \/ FullMatchName(p, data.assets[i].name)
                                \/ FullMatchName(p, RSplitLast(data.assets[i].url, "/"))})
        up(p) == FirstHit({i \in 1..Len(data.uploads) :
                              FullMatchName(p, RSplitLast(data.uploads[i], "/"))})
        pats == {apk_patterns[k] : k \in 1..Len(apk_patterns)}
        needsId == {p \in pats : link(p) = 0 /\ up(p) # 0}
        found == {p \in pats : link(p) # 0 \/ up(p) # 0}
    IN  IF needsId # {} /\ data.project_id = None
        THEN [raised |-> TRUE, error |-> "Error", tag |-> data.tag_name, apk_urls |-> <<>>]
        ELSE [raised |-> FALSE, tag |-> data.tag_name,
              apk_urls |-> [p \in found |->
                              IF link(p) # 0 THEN data.assets[link(p)].url
                              ELSE GitlabUploadUrl(host, data.project_id,
                                                   data.uploads[up(p)])]]

\* line 63: every requested pattern has a URL
\* mutant: the test of line 63 always passes
AllAssetsFound_Always(apk_urls, apk_patterns) == TRUE

AllAssetsFound(apk_urls, apk_patterns) ==
    DOMAIN apk_urls = {apk_patterns[k] : k \in 1..Len(apk_patterns)}

\* data: the forge's answer, or a transport error of the request
latest_release(repository, apk_patterns, data) ==
    LET host == Hostname(repository)
        r == CASE host = CODEBERG_DOT_ORG -> latest_release_gitea(data, apk_patterns)
               [] host = GITHUB_DOT_COM -> latest_release_github(data, apk_patterns)
               [] host = GITLAB_DOT_COM -> latest_release_gitlab(host, data, apk_patterns)
               [] OTHER -> [raised |-> TRUE, error |-> "NotImplementedError"]
    IN  IF host \notin {CODEBERG_DOT_ORG, GITHUB_DOT_COM, GITLAB_DOT_COM} THEN r
        ELSE IF data.failed THEN [raised |-> TRUE, error |-> "RequestException"]
        ELSE IF r.raised THEN r
        ELSE IF ~AllAssetsFound(r.apk_urls, apk_patterns)
             THEN [raised |-> TRUE, error |-> "Error"]
        ELSE [raised |-> FALSE, tag |-> r.tag, apk_urls |-> Dict(r.apk_urls)]

(***************************************************************************)
(* The recipe files of the model                                           *)
(***************************************************************************)
DexFileLine == <<"DEX_FILE", "=", "out", "/", "classes2.dex">>
DexShaLine(content) == <<"DEX_SHA1", "=", Sha1(content, <<"classes2.dex">>)>>
ProfFileLine == <<"PROF_FILE", "=", "out", "/", "baseline.prof">>
ProfShaLine(content) == <<"PROF_SHA1", "=", Sha1(content, PROF_PATH)>>

ReleaseUrl(tag, name) == <<"https://", "dl", "/">> \o tag \o <<"/", name>>

AppApk ==
    [apk_url |-> ReleaseUrl(<<"$$TAG$$">>, "app.apk"), apk_pattern |-> "PatApp",
     build |-> <<DexFileLine, DexShaLine("x"), <<"cd ", "app">>, <<"make">> >>]
LibApk ==
    [apk_url |-> ReleaseUrl(<<"$$TAG$$">>, "lib.apk"), apk_pattern |-> "PatLib",
     build |-> <<ResetLine("c1"), ProfFileLine, ProfShaLine("x")>>]
DatedApk ==
    [apk_url |-> <<"https://h/", "app-", "$$TAG$$", "-">> \o Strftime(1) \o <<".apk">>,
     apk_pattern |-> "PatApp",
     build |-> <<DexFileLine, DexShaLine("x")>>]

Repo(host) == <<"https://", host, "/", "ns", "/", "proj">>

RecipeFiles ==
    [github |-> [repository |-> Repo(GITHUB_DOT_COM), updates |-> <<"releases">>,
                 labels |-> {},
                 versions |-> <<[tag |-> TagV1, apks |-> <<AppApk>>]>>],
     gitlab |-> [repository |-> Repo(GITLAB_DOT_COM), updates |-> <<"releases">>,
                 labels |-> {"update-hashes"},
                 versions |-> <<[tag |-> TagV1, apks |-> <<AppApk, LibApk>>]>>],
     gitea |-> [repository |-> Repo(CODEBERG_DOT_ORG),
                updates |-> <<"checkonly:", "releases">>,
                labels |-> {"update-hashes"},
                versions |-> <<[tag |-> TagV1, apks |-> <<AppApk>>]>>],
     tags |-> [repository |-> Repo("example.org"), updates |-> <<"tags:", "PatV">>,
               labels |-> {"no-update-hashes"},
               versions |-> <<[tag |-> TagV1, apks |-> <<DatedApk>>]>>],
     manual |-> [repository |-> Repo(GITHUB_DOT_COM), updates |-> <<"manual">>,
                 labels |-> {"update-hashes"},
                 versions |-> <<[tag |-> TagV1, apks |-> <<AppApk>>]>>],
     selfhosted |-> [repository |-> Repo("example.org"), updates |-> <<"releases">>,
                     labels |-> {},
                     versions |-> <<[tag |-> TagV1, apks |-> <<AppApk>>]>>],
     disabled |-> [repository |-> Repo(GITHUB_DOT_COM), updates |-> <<"disabled">>,
                   labels |-> {"update-hashes"},
                   versions |-> <<[tag |-> TagV1, apks |-> <<AppApk>>]>>],
     checkmanual |-> [repository |-> Repo(GITHUB_DOT_COM),
                      updates |-> <<"checkonly:", "manual">>,
                      labels |-> {},
                      versions |-> <<[tag |-> TagV1, apks |-> <<AppApk>>]>>]]

FileNames == DOMAIN RecipeFiles

(***************************************************************************)
(* Specification SpecAppend: append_latest_version called repeatedly       *)
(***************************************************************************)
\* the resolved-URL arguments the orchestrator can pass for a recipe and tag
UrlArgs(recipe, tag) ==
    LET pats == {Last(recipe.versions).apks[k].apk_pattern :
                    k \in 1..Len(Last(recipe.versions).apks)}
    IN  {NoneUrls, Dict(<<>>),
         Dict([p \in pats |-> ReleaseUrl(tag, "app.apk")]),
         Dict([p \in pats |-> ReleaseUrl(tag, "app-arm.apk")])}

AppendInit ==
    /\ rcp \in {RecipeFiles[f] : f \in FileNames}
    /\ ah = [pc |-> "calls", calls |-> <<>>]

AppendCall ==
    /\ Len(ah.calls) < MaxCalls
    /\ \E tag \in {TagV1, TagV2, TagV1_2} :
       \E apk_urls \in UrlArgs(rcp, tag) :
         LET r == append_latest_version(rcp, tag, apk_urls) IN
         /\ rcp' = r.recipe
         /\ ah' = [ah EXCEPT !.calls = Append(@, [tag |-> tag, apk_urls |-> apk_urls,
                                                  before |-> rcp, after |-> r.recipe,
                                                  ret |-> r.ret])]
    /\ UNCHANGED <<apk, bh, url, sw, dl, disk, orc, log>>

NextAppend == AppendCall

InitAppend ==
    /\ AppendInit
    /\ apk = Idle /\ bh = Idle /\ url = Idle /\ sw = Idle /\ dl = Idle
    /\ disk = Idle /\ orc = Idle /\ log = Idle

SpecAppend == InitAppend /\ [][NextAppend]_vars

VersionsWithTag(recipe, tag) ==
    {k \in 1..Len(recipe.versions) : recipe.versions[k].tag = tag}

\* C3: a call of append_latest_version with a tag already among
\* recipe.versions returns false and leaves the recipe unchanged; so of two
\* calls with the same tag the second returns false and leaves the state the
\* first left (as changed by calls in between), with exactly one version of
\* that tag, and no call adds more than one version.
C3_AppendIdempotent ==
    LET c == ah.calls IN
    /\ \A k \in 1..Len(c) :
          /\ c[k].tag \in Tags(c[k].before) => ~c[k].ret /\ c[k].after = c[k].before
          /\ Len(c[k].after.versions) <= Len(c[k].before.versions) + 1
          /\ Cardinality(VersionsWithTag(c[k].after, c[k].tag)) = 1
    /\ \A j, k \in 1..Len(c) :
          j < k /\ c[j].tag = c[k].tag =>
              /\ ~c[k].ret
              /\ c[k].after = c[k].before
              /\ k = j + 1 => c[k].after = c[j].after

\* C3 witness: a first call appended the tag, the next call with it did nothing
C3_Witness ==
    \E k \in 2..Len(ah.calls) :
        /\ ah.calls[k - 1].ret /\ ah.calls[k - 1].tag = ah.calls[k].tag
        /\ ~ah.calls[k].ret /\ rcp = ah.calls[k - 1].after
        /\ Truthy(ah.calls[k].apk_urls)

(***************************************************************************)
(* update-hashes.py: update_recipe_hashes, update_hashes                   *)
(***************************************************************************)
\* What the outside world answers during one run of update_hashes:
\*   arts[k]     the artifact download_file_with_retries fetches for the k-th
\*               Apk, failed when it raises (all attempts failed)
\*   tag_commit  what tag_to_commit returns, "CalledProcessError" when
\*               git ls-remote fails, "Error" when the tag is not listed
HashFailures == {"CalledProcessError", "Error"}

\* the one element of a singleton set
Only(S) == CHOOSE x \in S : TRUE

\* lines 140-156: the Apks of one version, from the k-th on
RECURSIVE HashApks(_, _, _, _, _)
HashApks(apks, k, tag, tag_pattern, env) ==
    IF k > Len(apks) THEN [raised |-> FALSE, error |-> None, apks |-> apks,
                           modified |-> FALSE, downloads |-> <<>>]
    ELSE LET apk_url == url_with_replacements_hashes(apks[k].apk_url, tag, tag_pattern)
             art == env.arts[k]
         IN  IF art.failed
             THEN [raised |-> TRUE, error |-> "RequestException", apks |-> apks,
                   modified |-> FALSE, downloads |-> <<apk_url>>]
             ELSE IF env.tag_commit \in HashFailures
             THEN [raised |-> TRUE, error |-> env.tag_commit, apks |-> apks,
                   modified |-> FALSE, downloads |-> <<apk_url>>]
             ELSE Only({ [rest EXCEPT !.modified = r.modified \/ @,
                                      !.downloads = <<apk_url>> \o @] :
                         <<r, rest>> \in
                            { <<r1, HashApks([apks EXCEPT ![k] = r1.apk], k + 1, tag,
                                            tag_pattern, env)>> :
                              r1 \in {ReconcileApk(apks[k], [content |-> art.content,
                                                             commit |-> art.commit],
                                                   env.tag_commit)} } })

\* lines 137-157, given the outcome r[k] of the inner loop for each version k
\* that has the tag
HashVersions(data, hit, r) ==
    LET bad == {k \in hit : r[k].raised} IN
    IF bad # {}
    THEN [raised |-> TRUE, error |-> r[FirstHit(bad)].error, data |-> data,
          modified |-> FALSE]
    ELSE [raised |-> FALSE, error |-> None,
          data |-> [data EXCEPT !.versions =
                      [k \in 1..Len(data.versions) |->
                         IF k \in hit THEN [data.versions[k] EXCEPT !.apks = r[k].apks]
                         ELSE data.versions[k]]],
          modified |-> \E k \in hit : r[k].modified]

\* data as mutated in place, the return value, or the exception raised
update_recipe_hashes(data, repo, tag, tag_pattern, env) ==
    LET hit == {k \in 1..Len(data.versions) : data.versions[k].tag = tag} IN
    Only({ HashVersions(data, hit, r) :
           r \in {[k \in hit |-> HashApks(data.versions[k].apks, 1, tag,
                                          tag_pattern, env)]} })

\* line 215
HashesTagPattern(updates) ==
    IF StartsWith(updates, <<"tags:">>)
    THEN (IF Len(updates) > 1 THEN updates[2] ELSE None)
    ELSE None

\* update_hashes(recipe_file, tag) on the recipe load_recipe returns: whether
\* it raised, whether save_recipe is called, and the recipe saved
update_hashes(recipe, tag, env) ==
    Only({ [raised |-> r.raised, error |-> r.error,
            save |-> ~r.raised /\ r.modified, recipe |-> r.data] :
           r \in {update_recipe_hashes(recipe, recipe.repository, tag,
                                       HashesTagPattern(recipe.updates), env)} })

(***************************************************************************)
(* Specification Spec: the two entry points run on the recipe files        *)
(***************************************************************************)
\* the RECIPE arguments of update-recipes.py: up to MaxBatch distinct recipe
\* files, in the order FileOrder lists them
FileOrder ==
    <<"selfhosted", "github", "gitlab", "gitea", "tags", "checkmanual", "manual",
      "disabled">>
Batches ==
    {[k \in 1..Len(pos) |-> FileOrder[pos[k]]] :
        pos \in {q \in UNION {[1..n -> 1..Len(FileOrder)] : n \in 1..MaxBatch} :
                    \A i, j \in 1..Len(q) : i < j => q[i] < q[j]}}

\* what a forge can answer to the latest-release request
AssetsOf(tag) ==
    { [name |-> <<"app.apk">>, url |-> ReleaseUrl(tag, "app.apk")],
      [name |-> <<"app-arm.apk">>, url |-> ReleaseUrl(tag, "app-arm.apk")],
      [name |-> <<"release">>, url |-> ReleaseUrl(tag, "lib.apk")] }
UploadLink == <<"0f0f", "/", "lib.apk">>
FailedRequest ==
    [failed |-> TRUE, tag_name |-> <<>>, assets |-> <<>>, uploads |-> <<>>,
     project_id |-> None]
ReleaseData(host) ==
    {FailedRequest} \cup
    UNION {[failed : {FALSE}, tag_name : {t}, assets : SeqsUpTo(AssetsOf(t), MaxAssets),
            uploads : IF host = GITLAB_DOT_COM THEN {<<>>, <<UploadLink>>} ELSE {<<>>},
            project_id : IF host = GITLAB_DOT_COM THEN {None, "42"} ELSE {None}]
           : t \in {TagV1, TagV2}}

\* what the outside world can answer during a run of update_hashes
HashEnvs(napks) ==
    [arts : [1..napks -> {[failed |-> TRUE, content |-> "x", commit |-> None],
                          [failed |-> FALSE, content |-> "x", commit |-> None],
                          [failed |-> FALSE, content |-> "y", commit |-> "c2"]}],
     tag_commit : {"c1", "Error"}]

\* exceptions the except clause of update_recipes catches (line 329)
Caught == {"CalledProcessError", "RequestException", "Error"}

NoRecipe == [repository |-> <<>>, updates |-> <<>>, labels |-> {}, versions |-> <<>>]

\* log.release: the call of latest_release in the current turn of the for
\* loop, the answer of the forge to it and what it returned or raised
NoRelease == [idx |-> 0, data |-> FailedRequest, ret |-> [raised |-> FALSE]]

OrcLocals ==
    [recipe |-> NoRecipe, checkonly |-> FALSE, updates |-> <<>>, tag |-> <<>>,
     apk_urls |-> NoneUrls, data |-> FailedRequest, found_url |-> None]

Init ==
    /\ disk = RecipeFiles
    /\ \/ orc \in [entry : {"update_recipes"}, pc : {"for"}, batch : Batches,
                    idx : {1}, continue_on_errors : BOOLEAN,
                    always_update_hashes : BOOLEAN, result : {"running"},
                    loc : {OrcLocals}]
       \/ orc \in [entry : {"update_hashes"}, pc : {"main"},
                    batch : {<<f>> : f \in FileNames}, idx : {1},
                    continue_on_errors : {FALSE}, always_update_hashes : {FALSE},
                    result : {"running"},
                    loc : {[OrcLocals EXCEPT !.tag = t] : t \in {TagV1, TagV2}}]
    /\ log = [pc |-> "log", writes |-> <<>>, errors |-> <<>>, lookups |-> {},
              visited |-> <<>>, hashruns |-> <<>>, release |-> NoRelease]
    /\ sw = Idle
    /\ apk = Idle /\ bh = Idle /\ url = Idle /\ dl = Idle /\ rcp = Idle /\ ah = Idle

File == orc.batch[orc.idx]

\* save_recipe(recipe_file, data): the file is rewritten
Saved(by, before, data) ==
    [idx |-> orc.idx, file |-> File, by |-> by, before |-> before, after |-> data]

\* the next turn of the for loop
NextRecipe == [orc EXCEPT !.pc = "for", !.idx = @ + 1, !.loc = OrcLocals]

\* an exception of kind e leaves the try block (lines 329-332), or, not being
\* caught there, leaves update_recipes
RaiseIn(l, e, stage) ==
    /\ log' = [l EXCEPT !.errors = Append(@, [idx |-> orc.idx, file |-> File,
                                              error |-> e, stage |-> stage,
                                              caught |-> e \in Caught]),
                        !.lookups = IF stage \in {"latest_release", "latest_tag"}
                                    THEN @ \cup {orc.idx} ELSE @]
    /\ orc' = IF e \notin Caught THEN [orc EXCEPT !.pc = "done", !.result = "uncaught"]
              ELSE IF ~orc.continue_on_errors
              THEN [orc EXCEPT !.pc = "done", !.result = "False"]
              ELSE NextRecipe

Raise(e, stage) == RaiseIn(log, e, stage)

\* lines 282-294
LoadRecipe ==
    /\ orc.entry = "update_recipes" /\ orc.pc = "for" /\ orc.idx <= Len(orc.batch)
    /\ LET recipe == disk[File]
           updates == recipe.updates
           checkonly == StartsWith(updates, <<"checkonly:">>)
       IN  orc' = IF updates \in {<<"manual">>, <<"disabled">>} THEN NextRecipe
                  ELSE [orc EXCEPT !.pc = "try", !.loc.recipe = recipe,
                                   !.loc.checkonly = checkonly,
                                   !.loc.updates = IF checkonly THEN Tail(updates)
                                                   ELSE updates]
    /\ log' = [log EXCEPT !.visited = Append(@, orc.idx), !.release = NoRelease]
    /\ UNCHANGED <<disk, sw, apk, bh, url, dl, rcp, ah>>

\* line 296
ApkPatterns(recipe) ==
    [k \in 1..Len(Last(recipe.versions).apks) |-> Last(recipe.versions).apks[k].apk_pattern]

\* lines 297-301
ResolveReleases ==
    /\ orc.pc = "try" /\ orc.loc.updates = <<"releases">>
    /\ \E data \in ReleaseData(Hostname(orc.loc.recipe.repository)) :
         LET r == latest_release(orc.loc.recipe.repository, ApkPatterns(orc.loc.recipe), data)
             rel == [idx |-> orc.idx, data |-> data, ret |-> r]
         IN  IF r.raised
             THEN RaiseIn([log EXCEPT !.release = rel], r.error, "latest_release")
             ELSE /\ orc' = [orc EXCEPT !.pc = "append", !.loc.tag = r.tag,
                                        !.loc.apk_urls = r.apk_urls, !.loc.data = data]
                  /\ log' = [log EXCEPT !.lookups = @ \cup {orc.idx},
                                        !.release = rel]
    /\ UNCHANGED <<disk, sw, apk, bh, url, dl, rcp, ah>>

\* lines 302-305: latest_tag (which raises Error when no tag matches, and
\* CalledProcessError when git fails), then find_apk_url is entered
ResolveTags ==
    /\ orc.pc = "try" /\ StartsWith(orc.loc.updates, <<"tags:">>)
    /\ \/ \E e \in {"Error", "CalledProcessError"} :
            Raise(e, "latest_tag") /\ UNCHANGED sw
       \/ \E t \in {TagV1, TagV2}, today \in {MaxToday} :
            /\ orc' = [orc EXCEPT !.pc = "find_apk_url", !.loc.tag = t]
            /\ log' = [log EXCEPT !.lookups = @ \cup {orc.idx}]
            /\ sw' = [last_url |-> Last(orc.loc.recipe.versions).apks[1].apk_url,
                      tag |-> t, updates |-> orc.loc.recipe.updates, today |-> today,
                      pc |-> "start", lur |-> <<>>, date_group_test |-> None,
                      current_test |-> 0, probes |-> <<>>, result |-> None]
    /\ UNCHANGED <<disk, apk, bh, url, dl, rcp, ah>>

\* lines 305-311, find_apk_url having returned or raised
FoundUrl ==
    /\ orc.pc = "find_apk_url" /\ sw.pc \in {"returned", "raised"}
    /\ IF sw.pc = "raised"
       THEN Raise(sw.result, "find_apk_url")
       ELSE /\ orc' = [orc EXCEPT !.pc = "append", !.loc.found_url = sw.result,
                                  \* apk_urls = {} if found_url else None; the
                                  \* loop under `if apk_urls:` never runs: {} is false
                                  !.loc.apk_urls = IF sw.result # None
                                                   THEN (IF Truthy(Dict(<<>>))
                                                         THEN Dict([p \in {ApkPatterns(orc.loc.recipe)[k] : k \in 1..Len(ApkPatterns(orc.loc.recipe))} |-> sw.result])
                                                         ELSE Dict(<<>>))
                                                   ELSE NoneUrls]
            /\ UNCHANGED log
    /\ sw' = Idle
    /\ UNCHANGED <<disk, apk, bh, url, dl, rcp, ah>>

\* lines 312-313
UnsupportedMode ==
    /\ orc.pc = "try" /\ orc.loc.updates # <<"releases">>
    /\ ~StartsWith(orc.loc.updates, <<"tags:">>)
    /\ Raise("NotImplementedError", "updates mode")
    /\ UNCHANGED <<disk, sw, apk, bh, url, dl, rcp, ah>>

\* lines 322-324
WantsHashes(recipe, always_update_hashes) ==
    LET upd == "update-hashes" \in recipe.labels
        no_upd == "no-update-hashes" \in recipe.labels
    IN  (always_update_hashes /\ ~no_upd) \/ upd

\* mutant: the recipe is saved whenever a version was appended, the tests of
\* lines 315 and 317 left out
AppendVersion_AlwaysSave ==
    /\ orc.pc = "append"
    /\ LET r == append_latest_version(orc.loc.recipe, orc.loc.tag, orc.loc.apk_urls)
       IN  IF r.ret
           THEN /\ disk' = [disk EXCEPT ![File] = r.recipe]
                /\ log' = [log EXCEPT !.writes =
                              Append(@, Saved("update_recipes", disk[File], r.recipe))]
                /\ orc' = IF WantsHashes(r.recipe, orc.always_update_hashes)
                          THEN [orc EXCEPT !.pc = "update_hashes", !.loc.recipe = r.recipe]
                          ELSE NextRecipe
           ELSE /\ orc' = NextRecipe
                /\ UNCHANGED <<disk, log>>
    /\ UNCHANGED <<sw, apk, bh, url, dl, rcp, ah>>

\* lines 314-324 and 327-328
AppendVersion ==
    /\ orc.pc = "append"
    /\ LET r == append_latest_version(orc.loc.recipe, orc.loc.tag, orc.loc.apk_urls)
       IN  IF r.ret /\ ~orc.loc.checkonly /\ ~orc.loc.apk_urls.isNone
           THEN /\ disk' = [disk EXCEPT ![File] = r.recipe]
                /\ log' = [log EXCEPT !.writes =
                              Append(@, Saved("update_recipes", disk[File], r.recipe))]
                /\ orc' = IF WantsHashes(r.recipe, orc.always_update_hashes)
                          THEN [orc EXCEPT !.pc = "update_hashes", !.loc.recipe = r.recipe]
                          ELSE NextRecipe
           ELSE /\ orc' = NextRecipe
                /\ UNCHANGED <<disk, log>>
    /\ UNCHANGED <<sw, apk, bh, url, dl, rcp, ah>>

\* line 325: scripts/update-hashes.py run as a subprocess on the saved file;
\* any exception in it ends it with a non-zero status: CalledProcessError
RunUpdateHashes ==
    /\ orc.pc = "update_hashes"
    /\ \E env \in HashEnvs(Len(Last(disk[File].versions).apks)) :
         \E r \in {update_hashes(disk[File], orc.loc.tag, env)} :
         /\ disk' = IF r.save THEN [disk EXCEPT ![File] = r.recipe] ELSE disk
         /\ IF r.raised
            THEN /\ log' = [log EXCEPT
                               !.hashruns = Append(@, [idx |-> orc.idx, ok |-> FALSE]),
                               !.errors = Append(@, [idx |-> orc.idx, file |-> File,
                                                     error |-> "CalledProcessError",
                                                     stage |-> "update_hashes",
                                                     caught |-> TRUE])]
                 /\ orc' = IF ~orc.continue_on_errors
                           THEN [orc EXCEPT !.pc = "done", !.result = "False"]
                           ELSE NextRecipe
            ELSE /\ log' = [log EXCEPT
                               !.hashruns = Append(@, [idx |-> orc.idx, ok |-> TRUE]),
                               !.writes = IF r.save
                                          THEN Append(@, Saved("update_hashes", disk[File],
                                                               r.recipe))
                                          ELSE @]
                 /\ orc' = NextRecipe
    /\ UNCHANGED <<sw, apk, bh, url, dl, rcp, ah>>

\* line 333
ReturnTrue ==
    /\ orc.entry = "update_recipes" /\ orc.pc = "for" /\ orc.idx > Len(orc.batch)
    /\ orc' = [orc EXCEPT !.pc = "done", !.result = "True"]
    /\ UNCHANGED <<disk, log, sw, apk, bh, url, dl, rcp, ah>>

\* update-hashes.py RECIPE TAG (lines 211-217, 226)
UpdateHashesMain ==
    /\ orc.entry = "update_hashes" /\ orc.pc = "main"
    /\ \E env \in HashEnvs(Len(Last(disk[File].versions).apks)) :
         \E r \in {update_hashes(disk[File], orc.loc.tag, env)} :
         /\ disk' = IF r.save THEN [disk EXCEPT ![File] = r.recipe] ELSE disk
         /\ log' = [log EXCEPT
                       !.hashruns = Append(@, [idx |-> orc.idx, ok |-> ~r.raised]),
                       !.writes = IF r.save
                                  THEN Append(@, Saved("update_hashes", disk[File], r.recipe))
                                  ELSE @]
         /\ orc' = [orc EXCEPT !.pc = "done",
                               !.result = IF r.raised THEN "uncaught" ELSE "None"]
    /\ UNCHANGED <<sw, apk, bh, url, dl, rcp, ah>>

\* find_apk_url runs inside update_recipes
FindApkUrl == orc.pc = "find_apk_url" /\ NextSweep

Next ==
    \/ LoadRecipe \/ ResolveReleases \/ ResolveTags \/ FindApkUrl \/ FoundUrl
    \/ UnsupportedMode \/ AppendVersion \/ RunUpdateHashes \/ ReturnTrue
    \/ UpdateHashesMain

Spec == Init /\ [][Next]_vars

\* C1 (as the specification states it): every write of a recipe file, by
\* update_recipes or by update_hashes, writes a recipe that differs from the
\* one loaded from the file.
C1_Original ==
    \A k \in 1..Len(log.writes) : log.writes[k].after # log.writes[k].before

\* C1, update_recipes alone: it saves only after append_latest_version has
\* added a version
C1_AppendWrites ==
    \A k \in 1..Len(log.writes) :
        log.writes[k].by = "update_recipes" => log.writes[k].after # log.writes[k].before

\* C2 (as the specification states it): while the hash update of a newly
\* appended version has not succeeded the recipe file is as it was before the
\* run, and it stays so when the hash update fails.
C2_Original ==
    /\ orc.pc = "update_hashes" => disk[File] = RecipeFiles[File]
    /\ \A k \in 1..Len(log.errors) :
          log.errors[k].stage = "update_hashes" =>
              disk[log.errors[k].file] = RecipeFiles[log.errors[k].file]

\* the error kinds the specification lists: an unsupported forge, and the
\* kinds Error, RequestException and CalledProcessError stand for
ListedError(e) ==
    \/ e.error \in {"Error", "RequestException", "CalledProcessError"}
    \/ e.error = "NotImplementedError" /\ e.stage = "latest_release"

OnlyListedErrors ==
    /\ orc.entry = "update_recipes" /\ log.errors # <<>>
    /\ \A k \in 1..Len(log.errors) : ListedError(log.errors[k])

\* what update_recipes does once errors have occurred and were caught: it goes
\* on to every recipe and returns True with continue_on_errors, it stops at
\* the first failing recipe and returns False without
ErrorPolicy ==
    /\ orc.result # "uncaught"
    /\ orc.continue_on_errors /\ orc.pc = "done" =>
          /\ orc.result = "True"
          /\ log.visited = [k \in 1..Len(orc.batch) |-> k]
    /\ ~orc.continue_on_errors =>
          /\ orc.pc = "done" /\ orc.result = "False"
          /\ Len(log.errors) = 1
          /\ Last(log.visited) = log.errors[1].idx

\* C4 (as the specification states it): every error of a listed kind is
\* caught by update_recipes, which then continues through the batch and
\* returns True (continue_on_errors) or stops at once and returns False.
C4_Original == OnlyListedErrors => ErrorPolicy

\* find_apk_url has returned a URL and append_latest_version is about to be
\* called with the mapping built from it
TagsUrlFound ==
    /\ orc.pc = "append" /\ StartsWith(orc.loc.updates, <<"tags:">>)
    /\ orc.loc.found_url # None

\* the apk_url the claim gives an Apk of the appended version
RemappedUrl(a, tag, found_url) ==
    IF found_url # Replace(a.apk_url, <<"$$TAG$$">>, tag) THEN found_url ELSE a.apk_url

\* the version appended to the file has the found URL wherever the claim
\* says so
SavedWithFoundUrl ==
    LET old == Last(disk[File].versions).apks
        new == Last(disk'[File].versions).apks
    IN  \A k \in 1..Len(old) :
           new[k].apk_url = RemappedUrl(old[k], orc.loc.tag, orc.loc.found_url)

\* C12 (as the specification states it): in tags: mode, find_apk_url having
\* returned a URL, the mapping handed to append_latest_version maps every
\* asset pattern of the last version to that URL, and the version then
\* appended and saved has the found URL as apk_url wherever it differs from
\* the old apk_url with $$TAG$$ substituted.
C12_Original ==
    [][TagsUrlFound =>
          /\ orc.loc.apk_urls =
                Dict([p \in {ApkPatterns(orc.loc.recipe)[k] :
                                k \in 1..Len(ApkPatterns(orc.loc.recipe))}
                        |-> orc.loc.found_url])
          /\ disk' # disk => SavedWithFoundUrl]_vars

\* C12, the saved version alone
C12_SavedUrl == [][TagsUrlFound /\ disk' # disk => SavedWithFoundUrl]_vars

\* C12 when find_apk_url returns the URL of the last version as it is (its
\* first probe succeeded): the appended version keeps that URL
C12_TemplateFound ==
    [][(/\ TagsUrlFound /\ disk' # disk
        /\ orc.loc.found_url = Last(disk[File].versions).apks[1].apk_url)
          => SavedWithFoundUrl]_vars

\* the turns of the for loop of update_recipes made on recipe file f
TurnsOn(f) == {k \in 1..Len(orc.batch) : orc.batch[k] = f}

\* recipe file f has not been written and the hash update has not been run
\* on it
NotPersisted(f) ==
    /\ disk[f] = RecipeFiles[f]
    /\ \A k \in 1..Len(log.writes) : log.writes[k].file # f
    /\ \A k \in 1..Len(log.hashruns) : log.hashruns[k].idx \notin TurnsOn(f)

\* a new tag was found in tags: mode and find_apk_url found no URL
TagsUrlMissing ==
    /\ orc.pc = "append" /\ StartsWith(orc.loc.updates, <<"tags:">>)
    /\ orc.loc.tag \notin Tags(orc.loc.recipe)
    /\ orc.loc.found_url = None

\* C13: update_recipes makes no release or tag lookup for a recipe whose mode
\* is manual or disabled; for such a recipe and for a recipe whose mode is
\* prefixed checkonly: it never writes the recipe file and never runs the
\* hash update; and when a new tag was found in tags: mode and no artifact
\* URL, the step that follows writes no file and runs no hash update;
\* whatever the forge answers, the labels and always_update_hashes are.
C13_NeverPersisted ==
    /\ [](orc.entry = "update_recipes" =>
            \A f \in FileNames :
               /\ RecipeFiles[f].updates \in {<<"manual">>, <<"disabled">>} =>
                     /\ log.lookups \cap TurnsOn(f) = {}
                     /\ NotPersisted(f)
               /\ StartsWith(RecipeFiles[f].updates, <<"checkonly:">>) => NotPersisted(f))
    /\ [][TagsUrlMissing =>
             /\ disk' = disk /\ log'.writes = log.writes
             /\ log'.hashruns = log.hashruns /\ orc'.pc # "update_hashes"]_vars

\* C13 witness: always_update_hashes is set; the first recipe of the batch is
\* a checkonly: one with the label update-hashes, the forge has answered the
\* lookup for it with a new tag and its turn of the loop is over; the next
\* recipe is a manual or disabled one
C13_Witness ==
    /\ orc.entry = "update_recipes" /\ orc.pc = "for" /\ orc.idx = 2
    /\ orc.always_update_hashes /\ Len(orc.batch) = 2
    /\ StartsWith(RecipeFiles[orc.batch[1]].updates, <<"checkonly:">>)
    /\ "update-hashes" \in RecipeFiles[orc.batch[1]].labels
    /\ RecipeFiles[orc.batch[2]].updates \in {<<"manual">>, <<"disabled">>}
    /\ log.release.idx = 1 /\ ~log.release.ret.raised
    /\ log.release.ret.tag \notin Tags(RecipeFiles[orc.batch[1]])
    /\ log.lookups = {1} /\ log.errors = <<>>

\* the recipe, forge and patterns of the call of latest_release in log.release
ReleaseFile == orc.batch[log.release.idx]
ReleaseHost == Hostname(RecipeFiles[ReleaseFile].repository)
ReleasePatterns ==
    LET q == ApkPatterns(RecipeFiles[ReleaseFile]) IN {q[k] : k \in 1..Len(q)}

\* a supported forge has answered the request
ReleaseAnswered ==
    /\ log.release.idx # 0
    /\ ReleaseHost \in {CODEBERG_DOT_ORG, GITHUB_DOT_COM, GITLAB_DOT_COM}
    /\ ~log.release.data.failed

\* the first asset, in the order of the answer, whose name the pattern matches
FirstByName(data, p) ==
    FirstHit({i \in 1..Len(data.assets) : FullMatchName(p, data.assets[i].name)})

\* on GitLab: the first link whose name or whose URL's file name the pattern
\* matches
FirstByNameOrUrl(data, p) ==
    FirstHit({i \in 1..Len(data.assets) :
                 \/ FullMatchName(p, data.assets[i].name)
                 \/ FullMatchName(p, RSplitLast(data.assets[i].url, "/"))})

\* on GitLab: the first upload link of the description whose file name the
\* pattern matches
FirstUpload(data, p) ==
    FirstHit({i \in 1..Len(data.uploads) :
                 FullMatchName(p, RSplitLast(data.uploads[i], "/"))})

\* the URL a pattern resolves to, None when it resolves to none
ResolvedUrl(host, data, p) ==
    IF host # GITLAB_DOT_COM
    THEN (IF FirstByName(data, p) # 0 THEN data.assets[FirstByName(data, p)].url
          ELSE None)
    ELSE IF FirstByNameOrUrl(data, p) # 0
    THEN data.assets[FirstByNameOrUrl(data, p)].url
    ELSE IF FirstUpload(data, p) # 0 /\ data.project_id # None
    THEN GitlabUploadUrl(host, data.project_id, data.uploads[FirstUpload(data, p)])
    ELSE None

\* latest_release has failed with Error, and the recipe file of that turn of
\* the loop is neither extended nor written
ReleaseRejected ==
    /\ log.release.ret.raised /\ log.release.ret.error = "Error"
    /\ disk[ReleaseFile] = RecipeFiles[ReleaseFile]
    /\ \A k \in 1..Len(log.writes) : log.writes[k].idx # log.release.idx

\* C5 (as the specification states it): latest_release returns one URL for
\* each requested pattern, that of the first asset whose name the pattern
\* fully matches; when a pattern matches no asset's name it fails, and no
\* version is appended and the recipe file is not written.
C5_Original ==
    ReleaseAnswered =>
        LET data == log.release.data
            ret == log.release.ret
        IN  /\ ~ret.raised =>
                  /\ DOMAIN ret.apk_urls.map = ReleasePatterns
                  /\ \A p \in ReleasePatterns :
                        /\ FirstByName(data, p) # 0
                        /\ ret.apk_urls.map[p] = data.assets[FirstByName(data, p)].url
            /\ (\E p \in ReleasePatterns : FirstByName(data, p) = 0) => ReleaseRejected

\* C5: latest_release returns only with one URL for each requested pattern:
\* on Gitea and GitHub that of the first asset whose name the pattern fully
\* matches; on GitLab that of the first link whose name or whose URL's file
\* name the pattern fully matches, and when no link does, the URL built from
\* the project id and the first upload link of the description whose file
\* name matches.  When a pattern resolves to no URL latest_release fails
\* with Error, no version is appended and the recipe file is not written.
C5_AssetCompleteness ==
    ReleaseAnswered =>
        LET data == log.release.data
            ret == log.release.ret
        IN  /\ ~ret.raised =>
                  /\ DOMAIN ret.apk_urls.map = ReleasePatterns
                  /\ \A p \in ReleasePatterns :
                        ret.apk_urls.map[p] = ResolvedUrl(ReleaseHost, data, p)
            /\ (\E p \in ReleasePatterns : ResolvedUrl(ReleaseHost, data, p) = None)
                  => ReleaseRejected

\* C5 witness: GitLab has answered with a link for one of two patterns and an
\* upload link for the other, and the version is about to be appended
C5_Witness ==
    /\ ReleaseAnswered /\ ReleaseHost = GITLAB_DOT_COM /\ orc.pc = "append"
    /\ ~log.release.ret.raised
    /\ Cardinality(ReleasePatterns) = 2
    /\ \E p \in ReleasePatterns :
          /\ FirstByNameOrUrl(log.release.data, p) = 0
          /\ FirstUpload(log.release.data, p) # 0

\* C4 without the unsupported forge: the kinds the except clause names
C4_CaughtKinds ==
    (OnlyListedErrors /\ \A k \in 1..Len(log.errors) : log.errors[k].caught)
        => ErrorPolicy

(***************************************************************************)
(* Specification SpecBuild: update_commit_hash and the per-Apk             *)
(* reconciliation applied to bounded build sequences                       *)
(***************************************************************************)
FixLine(c1, c2) ==
    <<"fix-files", " ", VCSINFO_FILE, " ", "sed s/", c1, "/", c2, "/">>

BuildLines ==
    { ResetLine("c1"), <<CHECKOUT, " ", "v1">>, <<"cd ", "app">>,
      FixLine("c1", "c2"), <<"make">>,
      <<"DEX_FILE", "=", "out", "/", "classes2.dex">>,
      <<"DEX_FILE", "=", "classes2.dex">>,
      <<"DEX_SHA1", "=", "deadbeef">>,
      <<"PROF_FILE", "=", "out", "/", "baseline.prof">>,
      <<"PROF_SHA1", "=", "deadbeef">> }

BuildIdle == apk = Idle /\ bh = Idle

BuildInit ==
    /\ apk \in [apk_url : {<<"u">>}, apk_pattern : {"p"},
                build : SeqsUpTo(BuildLines, MaxLen)]
    /\ bh = [op |-> "none"]

\* update_commit_hash(apk, apk_commit, tag_commit)
CommitStep ==
    \E apk_commit \in Commits \cup {None}, tag_commit \in Commits :
        LET res == update_commit_hash(apk, apk_commit, tag_commit) IN
        /\ bh.op = "none"
        /\ apk' = res.apk
        /\ bh' = [op |-> "commit", before |-> apk, apk_commit |-> apk_commit,
                  tag_commit |-> tag_commit, ret |-> res.ret, rerun |-> FALSE]

\* the body of update_recipe_hashes for this Apk
ReconcileStep ==
    \E art \in Artifacts, tag_commit \in Commits :
        LET res == ReconcileApk(apk, art, tag_commit) IN
        /\ bh.op = "none"
        /\ apk' = res.apk
        /\ bh' = [op |-> "reconcile", before |-> apk, art |-> art,
                  tag_commit |-> tag_commit, modified |-> res.modified,
                  lines_files |-> res.lines_files, hashed |-> res.hashed,
                  rerun |-> FALSE]

\* the same call made again with the same inputs on the Apk as it now is
RerunCommit ==
    /\ bh.op = "commit" /\ ~bh.rerun
    /\ apk' = update_commit_hash(apk, bh.apk_commit, bh.tag_commit).apk
    /\ bh' = [bh EXCEPT !.rerun = TRUE] @@ [first |-> apk]

RerunReconcile ==
    /\ bh.op = "reconcile" /\ ~bh.rerun
    /\ apk' = ReconcileApk(apk, bh.art, bh.tag_commit).apk
    /\ bh' = [bh EXCEPT !.rerun = TRUE] @@ [first |-> apk]

NextBuild ==
    \/ CommitStep /\ UNCHANGED <<url, sw, dl, rcp, ah, disk, orc, log>>
    \/ ReconcileStep /\ UNCHANGED <<url, sw, dl, rcp, ah, disk, orc, log>>
    \/ RerunCommit /\ UNCHANGED <<url, sw, dl, rcp, ah, disk, orc, log>>
    \/ RerunReconcile /\ UNCHANGED <<url, sw, dl, rcp, ah, disk, orc, log>>

InitBuild ==
    /\ BuildInit
    /\ url = Idle /\ sw = Idle /\ dl = Idle /\ rcp = Idle /\ ah = Idle
    /\ disk = Idle /\ orc = Idle /\ log = Idle

SpecBuild == InitBuild /\ [][NextBuild]_vars

(***************************************************************************)
(* Build sequences as the claims speak of them                             *)
(***************************************************************************)
IsCd(line) == StartsWith(line, <<"cd ">>) \/ StartsWith(line, <<"pushd ">>)
IsReset(line) == StartsWith(line, <<RESET>>) \/ StartsWith(line, <<CHECKOUT>>)
IsFix(line) == Contains(line, <<VCSINFO_FILE>>) /\ Contains(line, <<"fix-files">>)

Min(S) == CHOOSE x \in S : \A y \in S : x <= y

\* index of the first directory change, Len + 1 if there is none
FirstCd(b) == Min({i \in 1..Len(b) : IsCd(b[i])} \cup {Len(b) + 1})
\* the reset instructions: reset/checkout lines before the first directory change
Resets(b) == {i \in 1..(FirstCd(b) - 1) : IsReset(b[i])}
Fixes(b) == {i \in 1..Len(b) : IsFix(b[i])}
\* the line reconciliation acts on: the first reset instruction or metadata
\* fix-files line, 0 if the build has neither
ActsOn(b) == Min(Resets(b) \cup Fixes(b) \cup {Len(b) + 1}) % (Len(b) + 1)

\* the build after the first call, whether or not the call was repeated since
FirstResult == IF bh.rerun THEN bh.first.build ELSE apk.build

CommitCall == bh.op = "commit"
Embedded == bh.apk_commit # None
Differ == Embedded /\ bh.apk_commit # bh.tag_commit

\* C6 as stated: commit reconciliation, for every build sequence: if the
\* embedded commit equals the tag's commit every reset instruction before the
\* first cd/pushd is gone and none is inserted; if they differ exactly one reset
\* instruction referencing the embedded commit exists before the first
\* directory change; a re-run with the same inputs changes no build line.
C6_Original ==
    CommitCall /\ Embedded =>
        LET b0 == bh.before.build
            b1 == FirstResult
        IN  /\ ~Differ => Resets(b1) = {} /\ Len(b1) <= Len(b0)
            /\ Differ =>
                  Cardinality({i \in Resets(b1) : b1[i] = ResetLine(bh.apk_commit)}) = 1
            /\ Differ /\ bh.rerun => apk.build = b1

\* C6 as amended: reconciliation acts on one line only, the first reset
\* instruction before the first cd/pushd or the first metadata fix-files line,
\* whichever comes first.  Equal commits (or none embedded): that line is
\* removed, every other line is kept, nothing is inserted.  Differing commits:
\* a reset instruction is rewritten to 'git reset --soft <embedded commit>',
\* a fix-files line has its commit substitution rewritten and no reset
\* instruction is touched or inserted, and with neither the reset instruction
\* is inserted as first build line; in the first and last case the first reset
\* instruction before the first directory change then references the embedded
\* commit and is the only one if the build had at most one.  A re-run with the
\* same inputs and differing commits changes no build line.
C6_CommitReconciliation ==
    CommitCall =>
        LET b0 == bh.before.build
            b1 == FirstResult
            k == ActsOn(b0)
            want == ResetLine(bh.apk_commit)
        IN  /\ ~Differ /\ k # 0 => b1 = Pop(b0, k) /\ bh.ret
            /\ ~Differ /\ k = 0 => b1 = b0 /\ ~bh.ret
            /\ Differ /\ k \in Resets(b0) =>
                  /\ b1 = [b0 EXCEPT ![k] = want]
                  /\ Min(Resets(b1)) = k
            /\ Differ /\ k \in Fixes(b0) \ Resets(b0) =>
                  /\ Len(b1) = Len(b0)
                  /\ \A i \in 1..Len(b0) : i # k => b1[i] = b0[i]
                  /\ IsFix(b1[k])
                  /\ Contains(b1[k], <<"sed s/", bh.tag_commit, "/", bh.apk_commit, "/">>)
            /\ Differ /\ k = 0 => b1 = <<want>> \o b0 /\ Resets(b1) = {1}
            /\ Differ /\ ~(k \in Fixes(b0) \ Resets(b0)) =>
                  /\ bh.ret
                  /\ Resets(b1) # {} /\ b1[Min(Resets(b1))] = want
                  /\ Cardinality(Resets(b0)) <= 1 => Cardinality(Resets(b1)) = 1
            /\ Differ /\ bh.rerun => apk.build = b1

\* C6 witness: differing commits, no reset instruction to start with, one
\* inserted as first line, and the call repeated
C6_Witness ==
    /\ CommitCall /\ Differ /\ bh.rerun
    /\ ActsOn(bh.before.build) = 0
    /\ \E i \in 1..Len(bh.before.build) : IsCd(bh.before.build[i])
    /\ apk.build[1] = ResetLine(bh.apk_commit)

\* the file name a <PREFIX>_FILE= line names: its value's last path component
NamedFile(line) == RSplitLast(SubSeq(line, 3, Len(line)), "/")

\* the member a recognised <PREFIX>_FILE= line stands for, <<>> if none
MemberOf(prefix, line) ==
    IF ~StartsWith(line, <<prefix \o "_FILE", "=">>) THEN <<>>
    ELSE IF FILES[prefix].re
         THEN (IF NamedFile(line) \in FILES[prefix].names THEN NamedFile(line) ELSE <<>>)
    ELSE IF NamedFile(line) = RSplitLast(FILES[prefix].path, "/")
         THEN FILES[prefix].path ELSE <<>>

\* the SHA1 lines the hash step is to patch: index -> the line it must read
Patched(b, content) ==
    {<<i + 1, <<Prefixes[n] \o "_SHA1", "=", Sha1(content, MemberOf(Prefixes[n], b[i]))>> >> :
        <<i, n>> \in {x \in (1..(Len(b) - 1)) \X (1..3) :
                        /\ MemberOf(Prefixes[x[2]], b[x[1]]) # <<>>
                        /\ StartsWith(b[x[1] + 1], <<Prefixes[x[2]] \o "_SHA1", "=">>)}}

ReconcileCall == bh.op = "reconcile"

\* C7 as stated: after the hash step every <PREFIX>_SHA1= line directly
\* following a recognised <PREFIX>_FILE= line reads <PREFIX>_SHA1=<digest of
\* that member>, the build keeps its length and no other line is touched.
C7_Original ==
    ReconcileCall =>
        LET b0 == bh.before.build
            b1 == bh.hashed.build
            P == Patched(b0, bh.art.content)
        IN  /\ Len(b1) = Len(b0)
            /\ \A e \in P : b1[e[1]] = e[2]
            /\ \A i \in 1..Len(b0) : (\A e \in P : e[1] # i) => b1[i] = b0[i]

\* the same for builds whose <PREFIX>_FILE= values all hold a '/'
C7_WithDirectories ==
    ReconcileCall /\ (\A i \in 1..Len(bh.before.build) :
                        LET l == bh.before.build[i] IN
                        Len(l) >= 2 /\ l[2] = "=" => Contains(l, <<"/">>))
        => C7_Original

\* the lines of build b from its first directory change on
FromFirstCd(b) == SubSeq(b, FirstCd(b), Len(b))

\* build b1 ends with the lines q
EndsWith(b1, q) ==
    Len(q) <= Len(b1) /\ SubSeq(b1, Len(b1) - Len(q) + 1, Len(b1)) = q

\* C11 (as the specification states it): update_commit_hash neither rewrites
\* nor removes a line at or after the first line starting with 'cd ' or
\* 'pushd ', be it a reset/checkout line or a fix-files line referencing the
\* metadata member: the build still ends with those lines, unchanged.
C11_Original ==
    CommitCall => EndsWith(FirstResult, FromFirstCd(bh.before.build))

\* C11 for builds with no metadata fix-files line at or after the first
\* directory change: reset/checkout lines there are left alone
C11_ResetLinesOnly ==
    (CommitCall /\ \A i \in Fixes(bh.before.build) : i < FirstCd(bh.before.build))
        => EndsWith(FirstResult, FromFirstCd(bh.before.build))

====
